---------------------------- MODULE Spec2Model ----------------------------
(***************************************************************************)
(* Model of trep's discrete system adapter, src/src/dsystem.py (DSystem).  *)
(*                                                                         *)
(* DSystem wraps a variational integrator (varint) as a discrete system    *)
(*     X[k+1] = f(X[k], U[k], k),  X = [Q ; p ; v],  U = [u ; rho].        *)
(* The integrator itself (trep.MidpointVI) is not part of dsystem.py; the  *)
(* part of it the adapter relies on is modelled from the specification     *)
(* (sections 3 and 4.3) and marked as such.                                *)
(*                                                                         *)
(* Four specifications are given:                                          *)
(*   SpecShape  the pure build_ / split_ helpers applied to bounded inputs.*)
(*   Spec       the adapter as a state machine (set, step, f).             *)
(*   SpecDeriv  the derivative accessors and validate_derivatives.         *)
(*   SpecTime   set and step with a reassignment of the time vector.       *)
(***************************************************************************)
EXTENDS Integers, Sequences, FiniteSets, TLC

VARIABLES
    sys,      \* the mechanical system's dimensions: [nd, nk, nu]
    time,     \* self._time : the time vector (1-based sequence here)
    k,        \* self._k    : the adapter's current index
    varint,   \* self.varint: the integrator's state
    hist,     \* history of the adapter calls (what the caller did last)
    call      \* the last helper / accessor call: [op, args, res]

vars == <<sys, time, k, varint, hist, call>>

-----------------------------------------------------------------------------
(* Bounds of the model.                                                    *)

\* Longest time vector drawn (number of discrete instants).
MaxN == 4

-----------------------------------------------------------------------------
(* Python / numpy values.                                                  *)
(*   None, a scalar, a 1-D array, a 2-D array (rows x cols), as passed by  *)
(*   a caller.  Arrays built inside the adapter are plain sequences (1-D)  *)
(*   or sequences of rows (2-D).                                           *)

NoneV == [kind |-> "None", val |-> 0, cols |-> 0]
Scalar(c) == [kind |-> "scalar", val |-> c, cols |-> 0]
Arr1(s) == [kind |-> "arr1", val |-> s, cols |-> 0]
Arr2(m, w) == [kind |-> "arr2", val |-> m, cols |-> w]

IsNone(x) == x.kind = "None"

\* The outcome of a call: a returned value, or the exception that left it.
Ok(v) == [exc |-> "none", val |-> v]
Raise(e) == [exc |-> e, val |-> <<>>]

\* Sequencing of statements: the rest runs only when no exception was raised.
Bind(r, F(_)) == IF r.exc # "none" THEN r ELSE F(r.val)

Min(a, b) == IF a < b THEN a ELSE b
Max(a, b) == IF a > b THEN a ELSE b

\* np.zeros((n,)) and np.zeros((r, c))
zeros1(n) == [i \in 1..n |-> 0]

\* Mutant of zeros2: the trajectory is allocated without being zeroed.
zeros2_unzeroed(r, c) == [i \in 1..r |-> [j \in 1..c |-> 1]]

zeros2(r, c) == [i \in 1..r |-> [j \in 1..c |-> 0]]

\* A Python slice(lo, hi), 0-based and half-open.
slice(lo, hi) == [lo |-> lo, hi |-> hi]

\* a[sl] for a 1-D array: Python clips the slice to the array.
GetSlice(a, sl) ==
    LET hi == Min(sl.hi, Len(a))
    IN  IF sl.lo >= hi THEN <<>> ELSE SubSeq(a, sl.lo + 1, hi)

\* a[:, sl] for a 2-D array.
GetCols(a, sl) == [i \in 1..Len(a) |-> GetSlice(a[i], sl)]

\* numpy broadcasting of a value's trailing dimension l onto a target of
\* width w: equal, or 1 (the single entry is repeated).
Broadcasts(l, w) == l = w \/ l = 1

\* a[sl] = value for a 1-D numpy array a.
SetSlice(a, sl, value) ==
    LET lo == sl.lo
        hi == Min(sl.hi, Len(a))
        w  == IF hi > lo THEN hi - lo ELSE 0
        put(g(_)) == Ok([i \in 1..Len(a) |->
                           IF i > lo /\ i <= hi THEN g(i - lo) ELSE a[i]])
    IN  CASE value.kind = "scalar" -> put(LAMBDA j : value.val)
          [] value.kind = "arr1" ->
                IF ~Broadcasts(Len(value.val), w) THEN Raise("ValueError")
                ELSE IF Len(value.val) = w THEN put(LAMBDA j : value.val[j])
                ELSE put(LAMBDA j : value.val[1])
          [] OTHER -> Raise("ValueError")

\* a[:, sl] = value for a 2-D numpy array a with Len(a) rows.
SetCols(a, sl, value) ==
    LET r  == Len(a)
        lo == sl.lo
        hi == sl.hi
        w  == IF hi > lo THEN hi - lo ELSE 0
        put(g(_, _)) == Ok([i \in 1..r |-> [j \in 1..Len(a[i]) |->
                           IF j > lo /\ j <= hi THEN g(i, j - lo) ELSE a[i][j]]])
    IN  CASE value.kind = "scalar" -> put(LAMBDA i, j : value.val)
          [] value.kind = "arr1" ->
                IF ~Broadcasts(Len(value.val), w) THEN Raise("ValueError")
                ELSE IF Len(value.val) = w THEN put(LAMBDA i, j : value.val[j])
                ELSE put(LAMBDA i, j : value.val[1])
          [] value.kind = "arr2" ->
                IF ~(Broadcasts(Len(value.val), r) /\ Broadcasts(value.cols, w))
                THEN Raise("ValueError")
                ELSE put(LAMBDA i, j :
                         value.val[IF Len(value.val) = r THEN i ELSE 1]
                                  [IF value.cols = w THEN j ELSE 1])
          [] OTHER -> Raise("ValueError")

\* len(x): the first dimension; a scalar has none.
PyLen(x) ==
    CASE x.kind = "scalar" -> Raise("TypeError")
      [] x.kind = "None" -> Raise("TypeError")
      [] OTHER -> Ok(Len(x.val))

-----------------------------------------------------------------------------
(* DSystem.__init__ : dimensions and slices.                               *)
(* system.configs lists the dynamic configs first, then the kinematic ones.*)

nQ == sys.nd + sys.nk          \* len(self.system.configs)
np == sys.nd                   \* len(self.system.dyn_configs)
nv == sys.nk                   \* len(self.system.kin_configs)
nu == sys.nu                   \* len(self.system.inputs)
nrho == sys.nk                 \* len(self.system.kin_configs)

nX == nQ + np + nv
nU == nu + nrho

slice_Q == slice(0, nQ)
slice_p == slice(nQ, nQ + np)
slice_v == slice(nQ + np, nX)
slice_u == slice(0, nu)
slice_rho == slice(nu, nU)

\* kf(): the last index the docstring says the system can be set to.
kf == Len(time) - 1


-----------------------------------------------------------------------------
(* build_state, build_input, build_trajectory.                             *)

\* X[sl] = value when the component is given; X unchanged when it is None.
SetIfGiven(a, sl, value) ==
    IF IsNone(value) THEN Ok(a) ELSE SetSlice(a, sl, value)

SetColsIfGiven(a, sl, value) ==
    IF IsNone(value) THEN Ok(a) ELSE SetCols(a, sl, value)

build_state(Q, p, v) ==
    Bind(SetIfGiven(zeros1(nX), slice_Q, Q), LAMBDA X1 :
    Bind(SetIfGiven(X1, slice_p, p), LAMBDA X2 :
         SetIfGiven(X2, slice_v, v)))

build_input(u, rho) ==
    Bind(SetIfGiven(zeros1(nU), slice_u, u), LAMBDA U1 :
         SetIfGiven(U1, slice_rho, rho))

\* The nested helper of build_trajectory is declared with the parameters
\* (self, reason) and is called with the reason alone; a call that gives a
\* Python function fewer arguments than it declares raises TypeError before
\* the body (which builds the message and raises StandardError) runs.
bad_arguments_params == <<"self", "reason">>

bad_arguments(args) ==
    IF Len(args) # Len(bad_arguments_params)
    THEN Raise("TypeError")
    ELSE Raise("StandardError")

\* if value is not None and len(value) != expected: bad_arguments(reason)
CheckLength(value, expected, reason) ==
    IF IsNone(value) THEN Ok(TRUE)
    ELSE Bind(PyLen(value), LAMBDA l :
              IF l # expected THEN bad_arguments(<<reason>>) ELSE Ok(TRUE))

build_trajectory(Q, p, v, u, rho) ==
    Bind(CheckLength(Q, Len(time), "Invalid length for Q"), LAMBDA c1 :
    Bind(CheckLength(p, Len(time), "Invalid length for p"), LAMBDA c2 :
    Bind(CheckLength(v, Len(time), "Invalid length for v"), LAMBDA c3 :
    Bind(CheckLength(u, Len(time) - 1, "Invalid length for u"), LAMBDA c4 :
    Bind(CheckLength(rho, Len(time) - 1, "Invalid length for rho"), LAMBDA c5 :
    Bind(SetColsIfGiven(zeros2(Len(time), nX), slice_Q, Q), LAMBDA X1 :
    Bind(SetColsIfGiven(X1, slice_p, p), LAMBDA X2 :
    Bind(SetColsIfGiven(X2, slice_v, v), LAMBDA X3 :
    Bind(SetColsIfGiven(zeros2(Len(time) - 1, nU), slice_u, u), LAMBDA U1 :
    Bind(SetColsIfGiven(U1, slice_rho, rho), LAMBDA U2 :
         Ok([X |-> X3, U |-> U2])))))))))))

-----------------------------------------------------------------------------
(* split_state, split_input, split_trajectory.                             *)
(* Their X and U are numpy arrays or None.                                 *)

\* split_state(None) evaluates nd.zeros(self.nX); the module binds the names
\* trep and np only, so the name nd is unbound.
ModuleNames == {"trep", "np"}

LookupName(name, v) == IF name \in ModuleNames THEN Ok(v) ELSE Raise("NameError")

\* Mutant of split_state: p and v are read through each other's slice.
split_state_swapped(X) ==
    Bind(IF IsNone(X) THEN LookupName("nd", zeros1(nX)) ELSE Ok(X.val), LAMBDA X1 :
         Ok([Q |-> GetSlice(X1, slice_Q),
             p |-> GetSlice(X1, slice_v),
             v |-> GetSlice(X1, slice_p)]))

split_state(X) ==
    Bind(IF IsNone(X) THEN LookupName("nd", zeros1(nX)) ELSE Ok(X.val), LAMBDA X1 :
         Ok([Q |-> GetSlice(X1, slice_Q),
             p |-> GetSlice(X1, slice_p),
             v |-> GetSlice(X1, slice_v)]))

split_input(U) ==
    Bind(IF IsNone(U) THEN LookupName("np", zeros1(nU)) ELSE Ok(U.val), LAMBDA U1 :
         Ok([u |-> GetSlice(U1, slice_u),
             rho |-> GetSlice(U1, slice_rho)]))

split_trajectory(X, U) ==
    LET X1 == IF IsNone(X) /\ IsNone(U) THEN zeros2(Len(time), nX)
              ELSE IF IsNone(X) THEN zeros2(Len(U.val) + 1, nX)
              ELSE X.val
        U1 == IF IsNone(X) /\ IsNone(U) THEN zeros2(Len(time) - 1, nU)
              ELSE IF IsNone(X) THEN U.val
              ELSE IF IsNone(U) THEN zeros2(Len(X.val) + 1, nU)
              ELSE U.val
    IN  Ok([Q |-> GetCols(X1, slice_Q),
            p |-> GetCols(X1, slice_p),
            v |-> GetCols(X1, slice_v),
            u |-> GetCols(U1, slice_u),
            rho |-> GetCols(U1, slice_rho)])

-----------------------------------------------------------------------------
(* Inputs drawn for the helpers.                                           *)

\* Entries are nonzero and differ by position and by component (seed), so a
\* misplaced, transposed or zeroed entry is visible.
Vec(l, s) == [i \in 1..l |-> 100 * s + i]
Mat(r, w, s) == [i \in 1..r |-> [j \in 1..w |-> 100 * s + 10 * i + j]]

Seeds == {1, 2}

\* The inputs are drawn by number, so that values of different kinds are
\* never collected in one set.

\* A component handed to build_state / build_input for a slice of width d:
\* omitted (0), a scalar (1), or a 1-D array of length i - 2 <= d + 1.
VecChoices(d) == 0..(d + 3)
VecArg(i, s) ==
    CASE i = 0 -> NoneV
      [] i = 1 -> Scalar(100 * s)
      [] OTHER -> Arr1(Vec(i - 2, s))

\* A component trajectory handed to build_trajectory for e steps of width d:
\* omitted, well shaped, one row too long, one column (broadcast), one column
\* too wide, a 1-D array of length e, a scalar.
TrajChoices == 0..6
TrajArg(i, e, d, s) ==
    CASE i = 0 -> NoneV
      [] i = 1 -> Arr2(Mat(e, d, s), d)
      [] i = 2 -> Arr2(Mat(e + 1, d, s), d)
      [] i = 3 -> Arr2(Mat(e, 1, s), 1)
      [] i = 4 -> Arr2(Mat(e, d + 1, s), d + 1)
      [] i = 5 -> Arr1(Vec(e, s))
      [] OTHER -> Scalar(100 * s)

\* A state / input handed to split_state / split_input: None (0) or a
\* well-shaped vector.
StateArg(s) == IF s = 0 THEN NoneV ELSE Arr1(Vec(nX, s))
InputArg(s) == IF s = 0 THEN NoneV ELSE Arr1(Vec(nU, s))

\* A state / input trajectory handed to split_trajectory: None (0 rows
\* asked) or r rows of the right width.
RowChoices == 0..(Len(time) + 1)
XTrajArg(r) == IF r = 0 THEN NoneV ELSE Arr2(Mat(r, nX, 1), nX)
UTrajArg(r) == IF r = 0 THEN NoneV ELSE Arr2(Mat(r, nU, 2), nU)

\* Mechanical systems: numbers of dynamic configs, kinematic configs, inputs.
ShapeSystems ==
    {[nd |-> 1, nk |-> 2, nu |-> 1],
     [nd |-> 1, nk |-> 1, nu |-> 0],
     [nd |-> 0, nk |-> 1, nu |-> 2]}

\* The time vector with the given gaps between instants, starting at 0.
RECURSIVE SumTo(_, _)
SumTo(g, i) == IF i = 0 THEN 0 ELSE g[i] + SumTo(g, i - 1)
TimeOf(g) == [i \in 1..(Len(g) + 1) |-> SumTo(g, i - 1)]

GapSeqs(G) == UNION {[1..m -> G] : m \in 1..(MaxN - 1)}

\* np.array(t).squeeze() of a strictly increasing t with at least two
\* instants (the time setter asserts ndim == 1, which one instant fails).
ShapeTimes == {TimeOf(g) : g \in GapSeqs({1})}

\* The integrator before initialize_from_state.
\* The derivative data cached by a successful step: the first (gq, gp) and
\* second (hq, hp) derivatives of every dynamic config and every momentum
\* of the solution with respect to a unit-weight component of (q1,p1,u1,k2).
NoCache == [gq |-> 0, gp |-> 0, hq |-> 0, hp |-> 0]

VarintNew ==
    [state |-> "New", t1 |-> 0, q1 |-> <<>>, p1 |-> <<>>,
     t2 |-> 0, q2 |-> <<>>, p2 |-> <<>>, cache |-> NoCache]

\* What the caller has done so far (history, not state of the program):
\*   op, exc    the last call of set / step and the exception it raised
\*   kset, m    the index given to the last set, and the steps that have
\*              succeeded since; failed: some call since that set raised
\*   qkin       the kinematic configs in the Q slice of the state X[k] the
\*              last call started from (the state given to set, the state
\*              held before step), when the call succeeded
\*   rho        the kinematic input carried by the last call's U, when the
\*              call succeeded
\*   rhoPrev    the kinematic input carried by the call before the last
\*              one, when that call succeeded at the preceding index
HistNew == [op |-> "init", exc |-> "none", kset |-> -1, m |-> 0,
            failed |-> FALSE, qkin |-> <<>>, rho |-> <<>>, rhoPrev |-> <<>>]

CallNew == [op |-> "init", args |-> <<>>, res |-> Ok(<<>>)]

InitShape ==
    /\ sys \in ShapeSystems
    /\ time \in ShapeTimes
    /\ k = 0
    /\ varint = VarintNew
    /\ hist = HistNew
    /\ call = CallNew

Adapter == <<sys, time, k, varint, hist>>

\* The helpers are pure: each is applied once, to inputs drawn afresh.
Fresh == call.op = "init"

BuildState ==
    /\ Fresh
    /\ \E iQ \in VecChoices(nQ), ip \in VecChoices(np), iv \in VecChoices(nv),
          s1 \in Seeds, s2 \in Seeds :
        LET Q == VecArg(iQ, s1)
            p == VecArg(ip, s2)
            v == VecArg(iv, s1)
        IN  /\ call' = [op |-> "build_state",
                        args |-> [Q |-> Q, p |-> p, v |-> v],
                        res |-> build_state(Q, p, v)]
            /\ UNCHANGED Adapter

BuildInput ==
    /\ Fresh
    /\ \E iu \in VecChoices(nu), irho \in VecChoices(nrho),
          s1 \in Seeds, s2 \in Seeds :
        LET u == VecArg(iu, s1)
            rho == VecArg(irho, s2)
        IN  /\ call' = [op |-> "build_input",
                        args |-> [u |-> u, rho |-> rho],
                        res |-> build_input(u, rho)]
            /\ UNCHANGED Adapter

BuildTrajectory ==
    /\ Fresh
    /\ \E iQ \in TrajChoices, ip \in TrajChoices, iv \in TrajChoices,
          iu \in TrajChoices, irho \in TrajChoices :
        LET Q == TrajArg(iQ, Len(time), nQ, 1)
            p == TrajArg(ip, Len(time), np, 2)
            v == TrajArg(iv, Len(time), nv, 3)
            u == TrajArg(iu, Len(time) - 1, nu, 4)
            rho == TrajArg(irho, Len(time) - 1, nrho, 5)
        IN  /\ call' = [op |-> "build_trajectory",
                        args |-> [Q |-> Q, p |-> p, v |-> v, u |-> u, rho |-> rho],
                        res |-> build_trajectory(Q, p, v, u, rho)]
            /\ UNCHANGED Adapter

SplitState ==
    /\ Fresh
    /\ \E s \in {0} \cup Seeds :
        /\ call' = [op |-> "split_state", args |-> [X |-> StateArg(s)],
                    res |-> split_state(StateArg(s))]
        /\ UNCHANGED Adapter

SplitInput ==
    /\ Fresh
    /\ \E s \in {0} \cup Seeds :
        /\ call' = [op |-> "split_input", args |-> [U |-> InputArg(s)],
                    res |-> split_input(InputArg(s))]
        /\ UNCHANGED Adapter

SplitTrajectory ==
    /\ Fresh
    /\ \E rX \in RowChoices, rU \in RowChoices :
        /\ call' = [op |-> "split_trajectory",
                    args |-> [X |-> XTrajArg(rX), U |-> UTrajArg(rU)],
                    res |-> split_trajectory(XTrajArg(rX), UTrajArg(rU))]
        /\ UNCHANGED Adapter

NextShape ==
    \/ BuildState
    \/ BuildInput
    \/ BuildTrajectory
    \/ SplitState
    \/ SplitInput
    \/ SplitTrajectory

SpecShape == InitShape /\ [][NextShape]_vars

-----------------------------------------------------------------------------
(* Properties of the helpers (checked under SpecShape).                    *)

HasLen(x) == x.kind \in {"arr1", "arr2"}

\* A supplied component whose len() differs from the expected one.
WrongLength(x, e) == HasLen(x) /\ Len(x.val) # e

\* A well-shaped component vector / component trajectory.
ValidVec(x, d) == x.kind = "arr1" /\ Len(x.val) = d
ValidTraj(x, e, d) == x.kind = "arr2" /\ Len(x.val) = e /\ x.cols = d

AllZero1(a) == \A i \in 1..Len(a) : a[i] = 0
AllZero2(a) == \A i \in 1..Len(a) : AllZero1(a[i])
HasShape(a, r, c) == Len(a) = r /\ \A i \in 1..Len(a) : Len(a[i]) = c

IsBuildTrajectory == call.op = "build_trajectory"

SomeWrongLength ==
    \/ WrongLength(call.args.Q, Len(time))
    \/ WrongLength(call.args.p, Len(time))
    \/ WrongLength(call.args.v, Len(time))
    \/ WrongLength(call.args.u, Len(time) - 1)
    \/ WrongLength(call.args.rho, Len(time) - 1)

\* C1: whenever a supplied component of build_trajectory has the wrong
\* length (Q, p, v against len(time); u, rho against len(time)-1), in every
\* combination of supplied and omitted components, the call raises the
\* shape-mismatch error (the StandardError carrying the "Invalid length"
\* reason) and returns no (X, U).
C1_RaisesShapeMismatch ==
    (IsBuildTrajectory /\ SomeWrongLength) => call.res.exc = "StandardError"

\* C2: round trips.  For well-shaped components, split_state applied to the
\* result of build_state(Q,p,v) returns exactly (Q,p,v); split_input applied
\* to build_input(u,rho) returns (u,rho); split_trajectory applied to the
\* (X,U) of build_trajectory(Q,p,v,u,rho) returns (Q,p,v,u,rho).
C2_RoundTrip ==
    /\ (/\ call.op = "build_state"
        /\ ValidVec(call.args.Q, nQ)
        /\ ValidVec(call.args.p, np)
        /\ ValidVec(call.args.v, nv))
       => /\ call.res.exc = "none"
          /\ split_state(Arr1(call.res.val)).exc = "none"
          /\ split_state(Arr1(call.res.val)).val
               = [Q |-> call.args.Q.val, p |-> call.args.p.val,
                  v |-> call.args.v.val]
    /\ (/\ call.op = "build_input"
        /\ ValidVec(call.args.u, nu)
        /\ ValidVec(call.args.rho, nrho))
       => /\ call.res.exc = "none"
          /\ split_input(Arr1(call.res.val)).exc = "none"
          /\ split_input(Arr1(call.res.val)).val
               = [u |-> call.args.u.val, rho |-> call.args.rho.val]
    /\ (/\ IsBuildTrajectory
        /\ ValidTraj(call.args.Q, Len(time), nQ)
        /\ ValidTraj(call.args.p, Len(time), np)
        /\ ValidTraj(call.args.v, Len(time), nv)
        /\ ValidTraj(call.args.u, Len(time) - 1, nu)
        /\ ValidTraj(call.args.rho, Len(time) - 1, nrho))
       => /\ call.res.exc = "none"
          /\ split_trajectory(Arr2(call.res.val.X, nX),
                              Arr2(call.res.val.U, nU)).exc = "none"
          /\ split_trajectory(Arr2(call.res.val.X, nX),
                              Arr2(call.res.val.U, nU)).val
               = [Q |-> call.args.Q.val, p |-> call.args.p.val,
                  v |-> call.args.v.val, u |-> call.args.u.val,
                  rho |-> call.args.rho.val]

\* C2 witness: build_trajectory was applied to five well-shaped component
\* trajectories of a system with dynamic and kinematic configs and an input.
C2_Witness ==
    /\ IsBuildTrajectory
    /\ sys.nd > 0 /\ sys.nk > 1 /\ sys.nu > 0 /\ Len(time) > 2
    /\ ValidTraj(call.args.Q, Len(time), nQ)
    /\ ValidTraj(call.args.p, Len(time), np)
    /\ ValidTraj(call.args.v, Len(time), nv)
    /\ ValidTraj(call.args.u, Len(time) - 1, nu)
    /\ ValidTraj(call.args.rho, Len(time) - 1, nrho)
    /\ call.res.exc = "none"

\* The slice of a returned trajectory that belongs to a component is zero
\* when the component was omitted and is the component when it was supplied
\* well shaped.
SliceAsGiven(a, sl, x, e, d) ==
    /\ IsNone(x) => AllZero2(GetCols(a, sl))
    /\ ValidTraj(x, e, d) => GetCols(a, sl) = x.val

\* C3: build_trajectory() with no arguments returns X of shape (n, nX) and U
\* of shape (n-1, nU), all zero; and whenever build_trajectory returns, X and
\* U have these shapes, the slices of the omitted components are zero and
\* the well-shaped supplied components appear unchanged in their slices.
C3_ZeroFill ==
    IsBuildTrajectory =>
        /\ (\A c \in {"Q", "p", "v", "u", "rho"} : IsNone(call.args[c]))
           => /\ call.res.exc = "none"
              /\ call.res.val.X = zeros2(Len(time), nX)
              /\ call.res.val.U = zeros2(Len(time) - 1, nU)
        /\ call.res.exc = "none"
           => /\ HasShape(call.res.val.X, Len(time), nX)
              /\ HasShape(call.res.val.U, Len(time) - 1, nU)
              /\ SliceAsGiven(call.res.val.X, slice_Q, call.args.Q, Len(time), nQ)
              /\ SliceAsGiven(call.res.val.X, slice_p, call.args.p, Len(time), np)
              /\ SliceAsGiven(call.res.val.X, slice_v, call.args.v, Len(time), nv)
              /\ SliceAsGiven(call.res.val.U, slice_u, call.args.u,
                              Len(time) - 1, nu)
              /\ SliceAsGiven(call.res.val.U, slice_rho, call.args.rho,
                              Len(time) - 1, nrho)

\* C3 witness: build_trajectory returned with Q and rho supplied and p, v, u
\* omitted, for a system where every slice is non-empty.
C3_Witness ==
    /\ IsBuildTrajectory
    /\ sys.nd > 0 /\ sys.nk > 1 /\ sys.nu > 0 /\ Len(time) > 2
    /\ ValidTraj(call.args.Q, Len(time), nQ)
    /\ IsNone(call.args.p) /\ IsNone(call.args.v) /\ IsNone(call.args.u)
    /\ ValidTraj(call.args.rho, Len(time) - 1, nrho)
    /\ call.res.exc = "none"

\* A component whose length disagrees with the declared width d of its
\* slice: a 1-D array of another length, or a scalar where d > 1.
BadWidth(x, d) ==
    \/ x.kind = "arr1" /\ Len(x.val) # d
    \/ x.kind = "scalar" /\ d > 1

\* A component trajectory whose per-step width disagrees with d.
BadStepWidth(x, d) == x.kind = "arr2" /\ x.cols # d

\* C9: a component whose length disagrees with its declared dimension is
\* rejected with an error, never truncated or padded: build_state and
\* build_input fail whenever a supplied component's length differs from nQ,
\* np, nv, nu, nrho (a length-1 or scalar component for a dimension greater
\* than 1 included), and build_trajectory fails on a wrong per-step width.
C9_WrongWidthRejected ==
    /\ (/\ call.op = "build_state"
        /\ \/ BadWidth(call.args.Q, nQ)
           \/ BadWidth(call.args.p, np)
           \/ BadWidth(call.args.v, nv))
       => call.res.exc # "none"
    /\ (/\ call.op = "build_input"
        /\ \/ BadWidth(call.args.u, nu)
           \/ BadWidth(call.args.rho, nrho))
       => call.res.exc # "none"
    /\ (/\ IsBuildTrajectory
        /\ \/ BadStepWidth(call.args.Q, nQ)
           \/ BadStepWidth(call.args.p, np)
           \/ BadStepWidth(call.args.v, nv)
           \/ BadStepWidth(call.args.u, nu)
           \/ BadStepWidth(call.args.rho, nrho))
       => call.res.exc # "none"

\* C10: the split operations return zero arrays of consistent shapes for an
\* omitted argument: split_state(None) returns zero (Q,p,v) of lengths nQ,
\* np, nv; split_input(None) returns zero (u,rho) of lengths nu, nrho; and
\* split_trajectory with X and/or U omitted returns u and rho trajectories
\* exactly one step shorter than the Q, p and v trajectories.
C10_SplitOmitted ==
    /\ (call.op = "split_state" /\ IsNone(call.args.X))
       => /\ call.res.exc = "none"
          /\ call.res.val = [Q |-> zeros1(nQ), p |-> zeros1(np), v |-> zeros1(nv)]
    /\ (call.op = "split_input" /\ IsNone(call.args.U))
       => /\ call.res.exc = "none"
          /\ call.res.val = [u |-> zeros1(nu), rho |-> zeros1(nrho)]
    /\ (/\ call.op = "split_trajectory"
        /\ (IsNone(call.args.X) \/ IsNone(call.args.U)))
       => /\ call.res.exc = "none"
          /\ Len(call.res.val.p) = Len(call.res.val.Q)
          /\ Len(call.res.val.v) = Len(call.res.val.Q)
          /\ Len(call.res.val.u) = Len(call.res.val.Q) - 1
          /\ Len(call.res.val.rho) = Len(call.res.val.Q) - 1

-----------------------------------------------------------------------------
(* Exact arithmetic: a quotient is kept as a fraction in lowest terms.     *)

Abs(a) == IF a < 0 THEN -a ELSE a

RECURSIVE Gcd(_, _)
Gcd(a, b) == IF b = 0 THEN a ELSE Gcd(b, a % b)

\* n / d for integers n, d with d # 0.
Rat(n, d) ==
    LET g == Gcd(Abs(n), Abs(d))
        sgn == IF d < 0 THEN -1 ELSE 1
    IN  [n |-> sgn * (n \div g), d |-> sgn * (d \div g)]

RatInt(a) == [n |-> a, d |-> 1]
RatSub(x, y) == Rat(x.n * y.d - y.n * x.d, x.d * y.d)
RatDivInt(x, c) == Rat(x.n, x.d * c)

\* a[i] for a Python index i into a 1-D array (negative indices count from
\* the end; anything else out of range raises IndexError).
PyIndex(a, i) ==
    IF i >= 0 /\ i < Len(a) THEN Ok(a[i + 1])
    ELSE IF i < 0 /\ i >= -Len(a) THEN Ok(a[Len(a) + i + 1])
    ELSE Raise("IndexError")

-----------------------------------------------------------------------------
(* The variational integrator, modelled from the specification (4.3): a    *)
(* state machine New -> Initialized -> Stepped.  step fixes the kinematic  *)
(* configs at t2 to k2 and solves for the dynamic configs and momenta; the *)
(* solution is whatever the Newton iteration returns (sol), or the         *)
(* iteration fails to converge (sol.ok = FALSE).                           *)

VI_initialize_from_state(t1, q1, p1) ==
    [state |-> "Initialized", t1 |-> t1, q1 |-> q1, p1 |-> p1,
     t2 |-> t1, q2 |-> q1, p2 |-> p1, cache |-> NoCache]

\* The state a step starts from: the given initial state, or the previous
\* step's result.
VI_base(vi) ==
    IF vi.state = "Stepped"
    THEN [t1 |-> vi.t2, q1 |-> vi.q2, p1 |-> vi.p2]
    ELSE [t1 |-> vi.t1, q1 |-> vi.q1, p1 |-> vi.p1]

VI_step(vi, t2, u1, k2, sol) ==
    IF vi.state \notin {"Initialized", "Stepped"} THEN
        [exc |-> "StateError", vi |-> vi]
    ELSE IF ~sol.ok THEN
        [exc |-> "ConvergenceFailure",
         vi |-> [state |-> "Failed", t1 |-> VI_base(vi).t1,
                 q1 |-> VI_base(vi).q1, p1 |-> VI_base(vi).p1,
                 t2 |-> t2, q2 |-> VI_base(vi).q1, p2 |-> VI_base(vi).p1,
                 cache |-> NoCache]]
    ELSE
        [exc |-> "none",
         vi |-> [state |-> "Stepped", t1 |-> VI_base(vi).t1,
                 q1 |-> VI_base(vi).q1, p1 |-> VI_base(vi).p1,
                 t2 |-> t2, q2 |-> sol.q \o k2, p2 |-> sol.p,
                 cache |-> [gq |-> sol.gq, gp |-> sol.gp,
                            hq |-> sol.hq, hp |-> sol.hp]]]

-----------------------------------------------------------------------------
(* set, step, f.                                                           *)
(* Each returns the adapter's new index and integrator, and the exception  *)
(* that left the call ("none" when it returned).                           *)

set(xk, uk, k_, sol) ==
    LET X  == split_state(Arr1(xk)).val
        U  == split_input(Arr1(uk)).val
        t1 == PyIndex(time, k_ + 0)
        t2 == PyIndex(time, k_ + 1)
        st == VI_step(VI_initialize_from_state(t1.val, X.Q, X.p),
                      t2.val, U.u, U.rho, sol)
    IN  IF t1.exc # "none" THEN [k |-> k_, vi |-> varint, exc |-> t1.exc]
        ELSE IF t2.exc # "none" THEN [k |-> k_, vi |-> varint, exc |-> t2.exc]
        ELSE [k |-> k_, vi |-> st.vi, exc |-> st.exc]

\* Mutant of step: the index is not advanced.
step_noadvance(uk, sol) ==
    LET k1 == k
        U  == split_input(Arr1(uk)).val
        t2 == PyIndex(time, k1 + 1)
        st == VI_step(varint, t2.val, U.u, U.rho, sol)
    IN  IF t2.exc # "none" THEN [k |-> k1, vi |-> varint, exc |-> t2.exc]
        ELSE [k |-> k1, vi |-> st.vi, exc |-> st.exc]

step(uk, sol) ==
    LET k1 == k + 1
        U  == split_input(Arr1(uk)).val
        t2 == PyIndex(time, k1 + 1)
        st == VI_step(varint, t2.val, U.u, U.rho, sol)
    IN  IF t2.exc # "none" THEN [k |-> k1, vi |-> varint, exc |-> t2.exc]
        ELSE [k |-> k1, vi |-> st.vi, exc |-> st.exc]

\* Mutant of f_v2: the dynamic configs are not dropped from the difference
\* quotients.
f_v2_all(vi) ==
    [i \in 1..Len(vi.q2) |-> Rat(vi.q2[i] - vi.q1[i], vi.t2 - vi.t1)]

\* v2 of f(): the difference quotients of all configs, then the kinematic
\* ones (those after the dynamic configs).
f_v2(vi) ==
    LET v2 == [i \in 1..Min(Len(vi.q2), Len(vi.q1)) |->
                 Rat(vi.q2[i] - vi.q1[i], vi.t2 - vi.t1)]
    IN  IF np >= Len(v2) THEN <<>> ELSE SubSeq(v2, np + 1, Len(v2))

f(vi) == build_state(Arr1(vi.q2), Arr1(vi.p2), Arr1(f_v2(vi)))

-----------------------------------------------------------------------------
(* The adapter as a state machine.                                         *)

Vals == {0, 1}

\* Systems stepped: one dynamic and one kinematic config with one input;
\* two kinematic configs alone.
DynSystems ==
    {[nd |-> 1, nk |-> 1, nu |-> 1],
     [nd |-> 0, nk |-> 2, nu |-> 0]}

\* Strictly increasing time vectors of 2..MaxN instants with uneven gaps
\* (1, 2, 3, ...), so that no two intervals of a vector are equal.
DynTimes == {TimeOf([i \in 1..m |-> i]) : m \in 1..(MaxN - 1)}

\* A vector of n entries that alternate c, 1 - c, c, ...
Alt(n, c) == [i \in 1..n |-> IF i % 2 = 1 THEN c ELSE 1 - c]

\* States and inputs drawn for set and step.
States ==
    {build_state(Arr1(Alt(np, a) \o Alt(nv, b)), Arr1(Alt(np, c)),
                 Arr1(Alt(nv, c))).val : a \in Vals, b \in Vals, c \in Vals}
Inputs ==
    {build_input(Arr1(Alt(nu, e)), Arr1(Alt(nrho, e))).val : e \in Vals}

\* Outcomes of the Newton iteration: a solution for the dynamic configs and
\* momenta (here one that does not vary with the step's arguments, so its
\* derivatives are zero), or no convergence.
Sols ==
    {[ok |-> TRUE, q |-> Alt(np, c), p |-> Alt(np, 1 - c),
      gq |-> 0, gp |-> 0, hq |-> 0, hp |-> 0] : c \in Vals}
    \cup {[ok |-> FALSE, q |-> <<>>, p |-> <<>>,
           gq |-> 0, gp |-> 0, hq |-> 0, hp |-> 0]}

Init ==
    /\ sys \in DynSystems
    /\ time \in DynTimes
    /\ k = 0
    /\ varint = VarintNew
    /\ hist = HistNew
    /\ call = CallNew

\* The kinematic configs (those after the dynamic ones) of a config vector.
KinPart(q) == IF np >= Len(q) THEN <<>> ELSE SubSeq(q, np + 1, Len(q))

\* The kinematic input of the last call, if that call succeeded at the
\* index before k_.
RhoBefore(k_) ==
    IF hist.op # "init" /\ hist.exc = "none" /\ k = k_ - 1
    THEN hist.rho ELSE <<>>

\* What the caller knows after set(xk, uk, k_) ended as r.
HistSet(xk, uk, k_, r) ==
    LET ok == r.exc = "none"
    IN  [op |-> "set", exc |-> r.exc, kset |-> k_, m |-> 0,
         failed |-> ~ok,
         qkin |-> IF ok THEN KinPart(GetSlice(xk, slice_Q)) ELSE <<>>,
         rho |-> IF ok THEN GetSlice(uk, slice_rho) ELSE <<>>,
         rhoPrev |-> RhoBefore(r.k)]

\* set(xk, uk, k) for a well-shaped state, input and an index 0 <= k <= kf().
Set ==
    \E xk \in States, uk \in Inputs, k_ \in 0..kf, sol \in Sols :
        \E r \in {set(xk, uk, k_, sol)} :
            /\ k' = r.k
            /\ varint' = r.vi
            /\ hist' = HistSet(xk, uk, k_, r)
            /\ UNCHANGED <<sys, time, call>>

\* step(uk) for a well-shaped input.  (A step that raises still moves the
\* index; steps are drawn while the index is within the time vector.)
Step ==
    /\ k <= kf
    /\ \E uk \in Inputs, sol \in Sols :
        \E r \in {step(uk, sol)} :
        LET ok == r.exc = "none"
        IN  /\ k' = r.k
            /\ varint' = r.vi
            /\ hist' = [op |-> "step", exc |-> r.exc, kset |-> hist.kset,
                        m |-> IF ok THEN hist.m + 1 ELSE hist.m,
                        failed |-> hist.failed \/ ~ok,
                        qkin |-> IF ok THEN KinPart(varint.q2) ELSE <<>>,
                        rho |-> IF ok THEN GetSlice(uk, slice_rho) ELSE <<>>,
                        rhoPrev |-> RhoBefore(r.k)]
            /\ UNCHANGED <<sys, time, call>>

Next ==
    \/ Set
    \/ Step

Spec == Init /\ [][Next]_vars

-----------------------------------------------------------------------------
(* Properties of set, step and f.  time is 1-based here: the code's        *)
(* time[k] is time[k + 1].                                                 *)

\* The last call was a set or step that returned.
Returned == hist.op \in {"set", "step"} /\ hist.exc = "none"

\* The v slice of the state f() returns.
f_v == GetSlice(f(varint).val, slice_v)

\* (b - a) / (t[k+1] - t[k]) entry by entry, at the current index k.
Quotients(b, a) ==
    [i \in 1..Len(b) |-> Rat(b[i] - a[i], time[k + 2] - time[k + 1])]

\* C4 as stated: after set(X[k], U[k], k) or step(U[k]) returns, the v slice
\* of f() is (rho[k+1] - rho[k]) / (t[k+1] - t[k]), where rho[k+1] is the
\* kinematic input of this call and rho[k] the kinematic input of the call
\* at the preceding index, whatever state X[k] was passed to set.
C4_VFromRho ==
    (Returned /\ hist.rhoPrev # <<>>)
    => f_v = Quotients(hist.rho, hist.rhoPrev)

\* C4 amended: after set(X[k], U[k], k) or step(U[k]) returns, the v slice
\* of f() is (rho[k+1] - qk) / (t[k+1] - t[k]), where qk is the kinematic
\* part of the configuration the step started from: the Q slice of the X[k]
\* passed to set, or, after step, the kinematic input of the preceding call
\* (so after step the quotient is (rho[k+1] - rho[k]) / (t[k+1] - t[k])).
C4_VFromStartConfig ==
    Returned
    => /\ f(varint).exc = "none"
       /\ f_v = Quotients(hist.rho, hist.qkin)
       /\ hist.op = "step" => /\ hist.qkin = hist.rhoPrev
                              /\ f_v = Quotients(hist.rho, hist.rhoPrev)

\* set returned at the index after a call that returned, with a state whose
\* kinematic configs are not that call's kinematic input.
C4_Witness ==
    /\ Returned
    /\ hist.op = "set"
    /\ hist.rhoPrev # <<>>
    /\ hist.qkin # hist.rhoPrev
    /\ hist.rho # hist.qkin

\* C5: after set at index kset and m step calls, all of which returned, the
\* current index is kset + m and the integrator has stepped over the
\* interval from time[kset+m] to time[kset+m+1].
C5_IndexAdvances ==
    (hist.kset >= 0 /\ ~hist.failed)
    => /\ k = hist.kset + hist.m
       /\ varint.state = "Stepped"
       /\ varint.t1 = time[k + 1]
       /\ varint.t2 = time[k + 2]

\* set at an index above 0 followed by a step, or set followed by two steps.
C5_Witness ==
    /\ ~hist.failed
    /\ hist.m >= 1
    /\ hist.kset + hist.m >= 2

\* C6: kf() is len(time) - 1 and set(xk, uk, k) with 0 <= k <= kf() and
\* well-shaped xk, uk positions the adapter at k: unless the integrator
\* fails to converge, the call returns with the index at k and the
\* integrator started from time[k].
C6_SetSucceedsUpToKf ==
    /\ kf = Len(time) - 1
    /\ (hist.op = "set" /\ hist.exc # "ConvergenceFailure")
       => /\ hist.exc = "none"
          /\ k = hist.kset
          /\ varint.t1 = time[hist.kset + 1]

-----------------------------------------------------------------------------
(* Matrices: a sequence of rows.                                           *)

RECURSIVE Sum(_)
Sum(a) == IF a = <<>> THEN 0 ELSE a[1] + Sum(Tail(a))

\* np.diag(np.ones(n) * c)
diag(n, c) == [i \in 1..n |-> [j \in 1..n |-> IF i = j THEN c ELSE RatInt(0)]]

\* M[rs, cs] = B for slices rs, cs and a block B of the slices' shape.
SetBlock(M, rs, cs, B) ==
    [i \in 1..Len(M) |-> [j \in 1..Len(M[i]) |->
        IF i > rs.lo /\ i <= rs.hi /\ j > cs.lo /\ j <= cs.hi
        THEN B[i - rs.lo][j - cs.lo] ELSE M[i][j]]]

\* M[rs, cs].T
BlockT(M, rs, cs) ==
    [j \in 1..(cs.hi - cs.lo) |-> [i \in 1..(rs.hi - rs.lo) |->
        M[rs.lo + i][cs.lo + j]]]

\* np.inner(z, T) for a vector z and an r x c x Len(z) array T: the last
\* axis of T is contracted with z.
inner(z, T, r, c) ==
    [i \in 1..r |-> [j \in 1..c |->
        Sum([l \in 1..Len(z) |-> z[l] * T[i][j][l]])]]

MatAdd(A, B) == [i \in 1..Len(A) |-> [j \in 1..Len(A[i]) |-> A[i][j] + B[i][j]]]

\* An integer matrix with its entries as fractions.
RatMat(A) == [i \in 1..Len(A) |-> [j \in 1..Len(A[i]) |-> RatInt(A[i][j])]]

-----------------------------------------------------------------------------
(* The integrator's derivative accessors, modelled from the specification  *)
(* (4.3): after a successful step the integrator exposes the first and     *)
(* second derivatives of (q2, p2) with respect to (q1, p1, u1, k2);        *)
(* before one they are a StateError (7).  The kinematic configs of q2 are  *)
(* k2 itself, so their derivative is the identity in k2 and zero elsewhere.*)
(* varint.q2_dq1() is VI_d1(vi, "q2", "q1"); varint.p2_dq1dk2() is         *)
(* VI_d2(vi, "p2", "q1", "k2"), indexed [q1][k2][p2].                      *)

VI_ready(vi) == vi.state = "Stepped"

\* Length of each argument / result of the step.
VI_dim(x) ==
    CASE x = "q1" -> nQ
      [] x = "p1" -> np
      [] x = "u1" -> nu
      [] x = "k2" -> nrho
      [] x = "q2" -> nQ
      [] x = "p2" -> np

\* How strongly the dynamics respond to each argument of the step.
VI_weight(x) ==
    CASE x = "q1" -> 1
      [] x = "p1" -> 2
      [] x = "u1" -> 3
      [] x = "k2" -> 1

VI_d1(vi, out, x) ==
    [i \in 1..VI_dim(out) |-> [j \in 1..VI_dim(x) |->
        IF out = "p2" THEN vi.cache.gp * VI_weight(x)
        ELSE IF i <= np THEN vi.cache.gq * VI_weight(x)
        ELSE IF x = "k2" /\ j = i - np THEN 1
        ELSE 0]]

VI_d2(vi, out, x, y) ==
    [i \in 1..VI_dim(x) |-> [j \in 1..VI_dim(y) |-> [l \in 1..VI_dim(out) |->
        IF out = "p2" THEN vi.cache.hp * VI_weight(x) * VI_weight(y)
        ELSE IF l <= np THEN vi.cache.hq * VI_weight(x) * VI_weight(y)
        ELSE 0]]]

\* Dynamics with exactly known derivatives: with s the weighted sum of the
\* step's arguments, every dynamic config of the solution is a*s + e*s*s
\* and every momentum e*s + a*s*s.
Laws ==
    {[ok |-> TRUE, a |-> 1, e |-> 1],
     [ok |-> TRUE, a |-> 2, e |-> 0],
     [ok |-> FALSE, a |-> 0, e |-> 0]}

\* The Newton iteration's outcome under a law for set(xk, uk, .).
Solve(law, xk, uk) ==
    LET X == split_state(Arr1(xk)).val
        U == split_input(Arr1(uk)).val
        S == VI_weight("q1") * Sum(X.Q) + VI_weight("p1") * Sum(X.p)
             + VI_weight("u1") * Sum(U.u) + VI_weight("k2") * Sum(U.rho)
    IN  [ok |-> law.ok,
         q |-> [i \in 1..np |-> law.a * S + law.e * S * S],
         p |-> [i \in 1..np |-> law.e * S + law.a * S * S],
         gq |-> law.a + 2 * law.e * S, gp |-> law.e + 2 * law.a * S,
         hq |-> 2 * law.e, hp |-> 2 * law.a]

-----------------------------------------------------------------------------
(* fdx, fdu, fdxdx, fdxdu, fdudu.                                          *)

fdx(k_, vi) ==
    Bind(PyIndex(time, k_ + 1), LAMBDA t2 :
    Bind(PyIndex(time, k_ + 0), LAMBDA t1 :
        IF ~VI_ready(vi) THEN Raise("StateError")
        ELSE
        LET dt == t2 - t1
            M0 == diag(nX, Rat(-1, dt))
            M1 == SetBlock(M0, slice_Q, slice_Q, RatMat(VI_d1(vi, "q2", "q1")))
            M2 == SetBlock(M1, slice_Q, slice_p, RatMat(VI_d1(vi, "q2", "p1")))
            M3 == SetBlock(M2, slice_p, slice_Q, RatMat(VI_d1(vi, "p2", "q1")))
            M4 == SetBlock(M3, slice_p, slice_p, RatMat(VI_d1(vi, "p2", "p1")))
        IN  Ok(M4)))

fdu(k_, vi) ==
    Bind(PyIndex(time, k_ + 1), LAMBDA t2 :
    Bind(PyIndex(time, k_ + 0), LAMBDA t1 :
        IF ~VI_ready(vi) THEN Raise("StateError")
        ELSE
        LET dt == t2 - t1
            M0 == RatMat(zeros2(nX, nU))
            M1 == SetBlock(M0, slice_Q, slice_u, RatMat(VI_d1(vi, "q2", "u1")))
            M2 == SetBlock(M1, slice_Q, slice_rho, RatMat(VI_d1(vi, "q2", "k2")))
            M3 == SetBlock(M2, slice_p, slice_u, RatMat(VI_d1(vi, "p2", "u1")))
            M4 == SetBlock(M3, slice_p, slice_rho, RatMat(VI_d1(vi, "p2", "k2")))
            M5 == SetBlock(M4, slice_v, slice_rho, diag(nrho, Rat(1, dt)))
        IN  Ok(M5)))

\* np.inner(zQ, varint.q2_d<x>d<y>()) + np.inner(zp, varint.p2_d<x>d<y>())
Contract(z, vi, x, y) ==
    MatAdd(inner(GetSlice(z, slice_Q), VI_d2(vi, "q2", x, y),
                 VI_dim(x), VI_dim(y)),
           inner(GetSlice(z, slice_p), VI_d2(vi, "p2", x, y),
                 VI_dim(x), VI_dim(y)))

\* Mutant of fdxdx: the v block is filled from the v slice of z.
fdxdx_with_v(z, vi) ==
    IF ~VI_ready(vi) THEN Raise("StateError")
    ELSE
    LET M0 == zeros2(nX, nX)
        M1 == SetBlock(M0, slice_Q, slice_Q, Contract(z, vi, "q1", "q1"))
        M2 == SetBlock(M1, slice_Q, slice_p, Contract(z, vi, "q1", "p1"))
        M3 == SetBlock(M2, slice_p, slice_Q, BlockT(M2, slice_Q, slice_p))
        M4 == SetBlock(M3, slice_p, slice_p, Contract(z, vi, "p1", "p1"))
        zv == GetSlice(z, slice_v)
        M5 == SetBlock(M4, slice_v, slice_v,
                       [i \in 1..nv |-> [j \in 1..nv |-> zv[i] * zv[j]]])
    IN  Ok(M5)

fdxdx(z, vi) ==
    IF ~VI_ready(vi) THEN Raise("StateError")
    ELSE
    LET M0 == zeros2(nX, nX)
        M1 == SetBlock(M0, slice_Q, slice_Q, Contract(z, vi, "q1", "q1"))
        M2 == SetBlock(M1, slice_Q, slice_p, Contract(z, vi, "q1", "p1"))
        M3 == SetBlock(M2, slice_p, slice_Q, BlockT(M2, slice_Q, slice_p))
        M4 == SetBlock(M3, slice_p, slice_p, Contract(z, vi, "p1", "p1"))
    IN  Ok(M4)

fdxdu(z, vi) ==
    IF ~VI_ready(vi) THEN Raise("StateError")
    ELSE
    LET M0 == zeros2(nX, nU)
        M1 == SetBlock(M0, slice_Q, slice_u, Contract(z, vi, "q1", "u1"))
        M2 == SetBlock(M1, slice_Q, slice_rho, Contract(z, vi, "q1", "k2"))
        M3 == SetBlock(M2, slice_p, slice_u, Contract(z, vi, "p1", "u1"))
        M4 == SetBlock(M3, slice_p, slice_rho, Contract(z, vi, "p1", "k2"))
    IN  Ok(M4)

fdudu(z, vi) ==
    IF ~VI_ready(vi) THEN Raise("StateError")
    ELSE
    LET M0 == zeros2(nU, nU)
        M1 == SetBlock(M0, slice_u, slice_u, Contract(z, vi, "u1", "u1"))
        M2 == SetBlock(M1, slice_u, slice_rho, Contract(z, vi, "u1", "k2"))
        M3 == SetBlock(M2, slice_rho, slice_u, BlockT(M2, slice_u, slice_rho))
        M4 == SetBlock(M3, slice_rho, slice_rho, Contract(z, vi, "k2", "k2"))
    IN  Ok(M4)

-----------------------------------------------------------------------------
(* validate_derivatives.                                                   *)

\* The perturbation delta, as one unit of the model's integers (the source's
\* default is 1e-5; a central difference is taken the same way for any
\* delta).
Delta == 1

\* x.copy() with x[i] += d, for a 0-based index i.
Perturbed(x, i, d) == [x EXCEPT ![i + 1] = @ + d]

\* self.set(xk, uk, k) with the integrator solving under a law.
SetLaw(law, xk, uk, k_) == set(xk, uk, k_, Solve(law, xk, uk))

\* self.f() after that set, every entry as a fraction.
FAt(law, xk, uk, k_) ==
    LET F == f(SetLaw(law, xk, uk, k_).vi).val
    IN  [r \in 1..nX |-> IF r > slice_v.lo THEN F[r] ELSE RatInt(F[r])]

\* (dfp - dfm) / (2 * delta)
CentralDiff(dfp, dfm) ==
    [r \in 1..nX |-> RatDivInt(RatSub(dfp[r], dfm[r]), 2 * Delta)]

\* M with M[:, i1] the i1-th of cols.
FromColumns(cols, n) == [r \in 1..nX |-> [c \in 1..n |-> cols[c][r]]]

\* The call ends with the adapter as its last set left it (xk, uk are that
\* set's arguments); what it returns are the norms of fdx_exact - fdx_approx
\* and fdu_exact - fdu_approx relative to the exact Jacobians, of which the
\* four matrices are kept.
validate_derivatives(xk, uk, k_, law) ==
    LET r0 == SetLaw(law, xk, uk, k_)
        fdx_approx ==
            FromColumns([i1 \in 1..nX |->
                CentralDiff(FAt(law, Perturbed(xk, i1 - 1, Delta), uk, k_),
                            FAt(law, Perturbed(xk, i1 - 1, -Delta), uk, k_))],
                nX)
        fdu_approx ==
            FromColumns([i1 \in 1..nU |->
                CentralDiff(FAt(law, xk, Perturbed(uk, i1 - 1, Delta), k_),
                            FAt(law, xk, Perturbed(uk, i1 - 1, -Delta), k_))],
                nU)
        xlast == IF nU > 0 THEN xk ELSE Perturbed(xk, nX - 1, -Delta)
        ulast == IF nU > 0 THEN Perturbed(uk, nU - 1, -Delta) ELSE uk
        last == SetLaw(law, xlast, ulast, k_)
    IN  IF r0.exc # "none"
        THEN [r |-> r0, xk |-> xk, uk |-> uk, exc |-> r0.exc, val |-> <<>>]
        ELSE [r |-> last, xk |-> xlast, uk |-> ulast, exc |-> "none",
              val |-> [fdx_exact |-> fdx(r0.k, r0.vi).val,
                       fdx_approx |-> fdx_approx,
                       fdu_exact |-> fdu(r0.k, r0.vi).val,
                       fdu_approx |-> fdu_approx]]

-----------------------------------------------------------------------------
(* The derivative accessors as a state machine: a newly constructed adapter*)
(* is set once (or not at all), and then one accessor is called.           *)

\* Covectors z passed to the second-derivative accessors.
Zs == [1..nX -> Vals]

SetUnderLaw ==
    /\ Fresh
    /\ hist.op = "init"
    /\ \E law \in Laws, xk \in States, uk \in Inputs, k_ \in 0..kf :
        \E r \in {SetLaw(law, xk, uk, k_)} :
            /\ k' = r.k
            /\ varint' = r.vi
            /\ hist' = HistSet(xk, uk, k_, r)
            /\ UNCHANGED <<sys, time, call>>

ValidateDerivatives ==
    /\ Fresh
    /\ hist.op = "init"
    /\ \E law \in Laws, xk \in States, uk \in Inputs, k_ \in 0..kf :
        \E d \in {validate_derivatives(xk, uk, k_, law)} :
            /\ k' = d.r.k
            /\ varint' = d.r.vi
            /\ hist' = HistSet(d.xk, d.uk, k_, d.r)
            /\ call' = [op |-> "validate_derivatives",
                        args |-> [xk |-> xk, uk |-> uk, k |-> k_],
                        res |-> [exc |-> d.exc, val |-> d.val]]
            /\ UNCHANGED <<sys, time>>

Fdxdx ==
    /\ Fresh
    /\ \E z \in Zs :
        /\ call' = [op |-> "fdxdx", args |-> [z |-> z],
                    res |-> fdxdx(z, varint)]
        /\ UNCHANGED Adapter

Fdxdu ==
    /\ Fresh
    /\ \E z \in Zs :
        /\ call' = [op |-> "fdxdu", args |-> [z |-> z],
                    res |-> fdxdu(z, varint)]
        /\ UNCHANGED Adapter

Fdudu ==
    /\ Fresh
    /\ \E z \in Zs :
        /\ call' = [op |-> "fdudu", args |-> [z |-> z],
                    res |-> fdudu(z, varint)]
        /\ UNCHANGED Adapter

NextDeriv ==
    \/ SetUnderLaw
    \/ ValidateDerivatives
    \/ Fdxdx
    \/ Fdxdu
    \/ Fdudu

SpecDeriv == Init /\ [][NextDeriv]_vars

-----------------------------------------------------------------------------
(* Properties of the derivative accessors (checked under SpecDeriv).       *)

\* validate_derivatives returned.
Validated == call.op = "validate_derivatives" /\ call.res.exc = "none"

\* C7: fdx() and fdu() equal the central finite-difference Jacobians of f()
\* that validate_derivatives computes (the dynamics drawn have central
\* differences that are exact), the v rows included: every entry of the v
\* rows of fdx() and fdu() is the partial derivative of f()'s v slice.
C7_JacobiansMatch ==
    Validated
    => /\ call.res.val.fdx_exact = call.res.val.fdx_approx
       /\ call.res.val.fdu_exact = call.res.val.fdu_approx

\* The last call was a second-derivative accessor that returned.
Contracted == call.op \in {"fdxdx", "fdxdu", "fdudu"} /\ call.res.exc = "none"

\* The accessor the last call named, applied to z now.
Accessor(z) ==
    CASE call.op = "fdxdx" -> fdxdx(z, varint)
      [] call.op = "fdxdu" -> fdxdu(z, varint)
      [] OTHER -> fdudu(z, varint)

AgreeOnQp(z1, z2) ==
    /\ GetSlice(z1, slice_Q) = GetSlice(z2, slice_Q)
    /\ GetSlice(z1, slice_p) = GetSlice(z2, slice_p)

InV(i) == i > slice_v.lo /\ i <= slice_v.hi

\* C8: the second-derivative accessors contract against the Q and p slices
\* of z only: every covector that agrees with z on the Q and p slices gives
\* the same result, whatever its v slice holds, and every entry of fdxdx in
\* a v row or v column and every entry of fdxdu in a v row is zero.
C8_ContractsQpOnly ==
    Contracted
    => /\ \A z2 \in Zs :
            AgreeOnQp(call.args.z, z2) => Accessor(z2).val = call.res.val
       /\ call.op = "fdxdx"
          => \A i \in 1..nX, j \in 1..nX :
                (InV(i) \/ InV(j)) => call.res.val[i][j] = 0
       /\ call.op = "fdxdu"
          => \A i \in 1..nX, j \in 1..nU :
                InV(i) => call.res.val[i][j] = 0

\* fdxdx returned a matrix that is not zero for a covector whose v slice is
\* not zero.
C8_Witness ==
    /\ Contracted
    /\ call.op = "fdxdx"
    /\ \E i \in 1..nX : InV(i) /\ call.args.z[i] # 0
    /\ \E i \in 1..nX, j \in 1..nX : call.res.val[i][j] # 0

-----------------------------------------------------------------------------
(* Reassigning the time vector: the time setter and load_state_trajectory. *)
(* One reassignment is drawn per behaviour, among calls of set and step.   *)

\* self.time = t for a flat sequence t: np.array(t).squeeze() of a single
\* instant is 0-dimensional, which the assertion rejects; nothing else about
\* t is checked, and the index and the integrator are left as they are.
time_setter(t) ==
    IF Len(t) = 1 THEN Raise("AssertionError") ELSE Ok(t)

\* Time vectors assigned through the setter: one instant, and two instants
\* whose interval differs from those of the vectors the adapter is
\* constructed with.
NewTimes == {TimeOf([i \in 1..m |-> 2]) : m \in {0, 1}}

\* Time vectors of the files loaded: a file was saved from an adapter's time
\* vector, which has passed the setter's assertion.  The longest vector is
\* drawn, with intervals that differ from all the others.
SavedTimes == {TimeOf([i \in 1..(MaxN - 1) |-> 3])}

\* What trep.load_trajectory returns for a file save_state_trajectory wrote
\* with the time vector t: t and component trajectories of its lengths.
LoadedFile(t) ==
    [t |-> t,
     Q |-> TrajArg(1, Len(t), nQ, 1),
     p |-> TrajArg(1, Len(t), np, 2),
     v |-> TrajArg(1, Len(t), nv, 3),
     u |-> TrajArg(1, Len(t) - 1, nu, 4),
     rho |-> TrajArg(1, Len(t) - 1, nrho, 5)]

SetTime ==
    /\ Fresh
    /\ \E t \in NewTimes :
        \E a \in {time_setter(t)} :
            /\ time' = IF a.exc = "none" THEN a.val ELSE time
            /\ call' = [op |-> "time", args |-> [t |-> t],
                        res |-> [exc |-> a.exc, val |-> <<>>]]
            /\ UNCHANGED <<sys, k, varint, hist>>

\* load_state_trajectory: self.time = t, then build_trajectory against the
\* new time vector.
LoadStateTrajectory ==
    /\ Fresh
    /\ \E t \in SavedTimes :
        \E a \in {time_setter(t)}, F \in {LoadedFile(t)} :
            /\ time' = IF a.exc = "none" THEN a.val ELSE time
            /\ UNCHANGED <<sys, k, varint, hist>>
            /\ call' = [op |-> "load_state_trajectory", args |-> [t |-> t],
                        res |-> IF a.exc # "none"
                                THEN [exc |-> a.exc, val |-> <<>>]
                                ELSE build_trajectory(F.Q, F.p, F.v, F.u, F.rho)']

NextTime ==
    \/ Set
    \/ Step
    \/ SetTime
    \/ LoadStateTrajectory

SpecTime == Init /\ [][NextTime]_vars

-----------------------------------------------------------------------------
(* Properties under time reassignment (checked under SpecTime).            *)

\* fdx() and fdu() both return at the adapter's current index.
JacobiansReturn ==
    fdx(k, varint).exc = "none" /\ fdu(k, varint).exc = "none"

\* C11: after any sequence of set, step and time reassignments, the interval
\* fdx() and fdu() use for the v blocks (-1/dt on fdx's v diagonal, 1/dt in
\* fdu's v rows, dt = time[k+1] - time[k]) is the interval f() uses for the
\* v slice, the integrator's t2 - t1.
C11_SameInterval ==
    JacobiansReturn
    => /\ fdx(k, varint).val[nX][nX] = Rat(-1, varint.t2 - varint.t1)
       /\ fdu(k, varint).val[nX][nU] = Rat(1, varint.t2 - varint.t1)

-----------------------------------------------------------------------------
(* Failing steps (checked under Spec).                                     *)

\* C12: a step(uk) call that raises, because time[k+1] does not exist for
\* the next index or because the integrator's step raises (no convergence,
\* or no step to start from), leaves the adapter's current index unchanged.
C12_FailedStepKeepsIndex ==
    [][(hist'.op = "step" /\ hist'.exc # "none") => k' = k]_vars

=============================================================================
